---- MODULE Spec2Model ----
(***************************************************************************)
(* Model of the SpiZwiBu station assignment scheduler: the scheduling      *)
(* engine (lib/scheduling/engine.ts) with its time-slot generation, its    *)
(* availability predicate, its candidate selection, its retry loop and its *)
(* fairness metrics; and the pages of the application around it (import,   *)
(* configuration, schedule, display) with the session store they share.    *)
(*                                                                         *)
(* Time is counted in hours since 00:00 UTC of calendar day 0.  A calendar *)
(* date string "YYYY-MM-DD" is represented by its day number.  Day 1 is a  *)
(* Thursday, so days 1..5 are Thu, Fri, Sat, Sun, Mon.                     *)
(***************************************************************************)
EXTENDS Integers, Sequences, FiniteSets, Bags, TLC

VARIABLES
    tz,                      \* the runtime's local time zone (environment)
    constraints,             \* the ScheduleConstraints argument of the call
    persons,                 \* this.persons
    stations,                \* this.stations (the active ones)
    timeSlots,               \* this.timeSlots
    assignments,             \* this.assignments, a list up to order: a bag
    pc,                      \* position of the call: idle, loop, pass, done
    iteration,               \* loop variable of generateOptimizedAssignments
    errors,                  \* errors of generateOptimizedAssignments
    currentIterationErrors,  \* diagnostics of the pass in progress
    todoSlots,               \* slots of the shuffled order not yet reached
    curSlot,                 \* index of the slot being processed, 0 if none
    todoStations,            \* stations of the shuffled order not yet reached
    passes,                  \* number of passes started during the call
    result,                  \* the ScheduleResult returned, NoResult before
    earlier,                 \* the result an earlier call on the engine returned
    store,                   \* sessionStorage: the five entries of the application
    page,                    \* the mounted page: its route and its React state
    timers,                  \* the pending setTimeout callbacks
    nextId                   \* source of the ids not yet given out

engineVars == <<tz, constraints, persons, stations, timeSlots, assignments, pc,
                iteration, errors, currentIterationErrors, todoSlots, curSlot,
                todoStations, passes, result, earlier>>

appVars == <<store, page, timers, nextId>>

vars == <<tz, constraints, persons, stations, timeSlots, assignments, pc, iteration,
          errors, currentIterationErrors, todoSlots, curSlot, todoStations,
          passes, result, earlier, store, page, timers, nextId>>

(***************************************************************************)
(* Bounds of the model.                                                    *)
(***************************************************************************)
MaxDay == 2          \* start and end dates of the engine runs lie in 1..MaxDay
MaxSpan == 1         \* |endDate - startDate| of the engine runs
MaxSlotDay == 12     \* start and end dates of the slot-generation runs
MaxPersons == 4
MaxStations == 2
MaxWork == 8         \* persons x active stations x slots of an engine run
MaxAgainPersons == 3 \* persons of the calls on an engine that is used twice
MaxRangePersons == 2 \* persons of the engine runs over the long date ranges
MaxStationAdds == 6  \* stations created on the configuration page
MaxPersonIds == 3    \* person ids given out on the import page
MaxRows == 2         \* data rows of an uploaded CSV file
MaxCount == 3        \* the count argument of findBestPersonsForSlot lies in 0..MaxCount
MaxEditDay == 11     \* the date fields of the configuration page hold 1..MaxEditDay
MaxAvailDay == 4       \* the date fields of the availability form hold 0..MaxAvailDay
ListDate == 2        \* the date that the date lists of the inputs name

(***************************************************************************)
(* Calendar and the JavaScript Date operations the engine uses.            *)
(***************************************************************************)
HoursPerDay == 24
DaysPerWeek == 7

\* Weekday of calendar day d as Date.getDay() numbers it: 0 = Sunday.
Weekday(d) == (d + 3) % DaysPerWeek

DayNames == <<"Sunday", "Monday", "Tuesday", "Wednesday", "Thursday",
              "Friday", "Saturday">>

\* A time zone: local time = UTC + before until the instant switchAt, and
\* UTC + after from then on.
UTC == [before |-> 0, after |-> 0, switchAt |-> 0]
\* Europe/Berlin in a week whose Sunday (day 4) ends winter time at 01:00 UTC.
BerlinSpring == [before |-> 1, after |-> 2, switchAt |-> 4 * HoursPerDay + 1]
\* Europe/Berlin in a week whose Sunday (day 4) ends summer time at 01:00 UTC.
BerlinAutumn == [before |-> 2, after |-> 1, switchAt |-> 4 * HoursPerDay + 1]
\* Africa/Cairo in a week whose Friday (day 2) starts summer time at 00:00
\* local time, which is Thursday 22:00 UTC.
CairoSpring == [before |-> 2, after |-> 3, switchAt |-> 1 * HoursPerDay + 22]
\* America/New_York outside of any transition.
NewYork == [before |-> 0 - 5, after |-> 0 - 5, switchAt |-> 0]

TimeZones == {UTC, BerlinSpring, BerlinAutumn, CairoSpring, NewYork}

\* The zones of the engine runs: on the first days of the week Europe/Berlin
\* is at a constant offset east of UTC and yields the slots that UTC yields.
EngineTimeZones == {UTC, CairoSpring, NewYork}

Offset(zone, t) == IF t < zone.switchAt THEN zone.before ELSE zone.after

\* new Date("YYYY-MM-DD"): a date-only string is midnight UTC of that day.
ParseDate(d) == d * HoursPerDay

\* The local wall clock of the instant t, in hours.
LocalTime(zone, t) == t + Offset(zone, t)

\* The instant of a local wall-clock time; a repeated or skipped local time
\* is read with the offset in force before the transition.
FromLocalTime(zone, l) ==
    IF l - zone.before < zone.switchAt THEN l - zone.before
    ELSE IF l - zone.after >= zone.switchAt THEN l - zone.after
    ELSE l - zone.before

\* Date.getDay(): the weekday of the local calendar day.
getDay(zone, t) == Weekday(LocalTime(zone, t) \div HoursPerDay)

\* currentDate.setDate(currentDate.getDate() + 1): the same local wall-clock
\* time on the next local calendar day.
NextLocalDay(zone, t) == FromLocalTime(zone, LocalTime(zone, t) + HoursPerDay)

\* toISOString().split('T')[0]: the UTC calendar day of the instant.
ISODate(t) == t \div HoursPerDay

(***************************************************************************)
(* generateTimeSlots                                                       *)
(***************************************************************************)
Config(s, e, m, v) ==
    [startDate |-> s, endDate |-> e, includeStartMorning |-> m,
     includeEndEvening |-> v]

\* The helper getDayName: the name of the local weekday; for a Sunday it
\* throws, which the model records as the day name "Sunday" of the slot.
getDayName(zone, date) == DayNames[getDay(zone, date) + 1]

TimeSlot(zone, config, currentDate, time) ==
    LET wd == getDay(zone, currentDate)
        daysDiff == (currentDate - ParseDate(config.startDate)) \div HoursPerDay
    IN  [day |-> getDayName(zone, currentDate),
         time |-> time,
         dayIndex |-> IF wd = 1 THEN 0 ELSE wd - 1,
         timeIndex |-> IF time = "Morning" THEN 0 ELSE 1,
         date |-> ISODate(currentDate),
         weekNumber |-> daysDiff \div DaysPerWeek]

\* The loop of generateTimeSlots without the check that skips Sundays.
RECURSIVE SlotLoopNoSundaySkip(_, _, _, _)
SlotLoopNoSundaySkip(zone, config, currentDate, slots) ==
    LET startDate == ParseDate(config.startDate)
        endDate == ParseDate(config.endDate)
        morning == IF ~(currentDate = startDate /\ ~config.includeStartMorning)
                   THEN <<TimeSlot(zone, config, currentDate, "Morning")>>
                   ELSE <<>>
        evening == IF ~(currentDate = endDate /\ ~config.includeEndEvening)
                   THEN <<TimeSlot(zone, config, currentDate, "Evening")>>
                   ELSE <<>>
    IN  IF ~(currentDate <= endDate) THEN slots
        ELSE SlotLoopNoSundaySkip(zone, config, NextLocalDay(zone, currentDate),
                                  slots \o morning \o evening)

RECURSIVE SlotLoop(_, _, _, _)
SlotLoop(zone, config, currentDate, slots) ==
    LET startDate == ParseDate(config.startDate)
        endDate == ParseDate(config.endDate)
        morning == IF ~(currentDate = startDate /\ ~config.includeStartMorning)
                   THEN <<TimeSlot(zone, config, currentDate, "Morning")>>
                   ELSE <<>>
        evening == IF ~(currentDate = endDate /\ ~config.includeEndEvening)
                   THEN <<TimeSlot(zone, config, currentDate, "Evening")>>
                   ELSE <<>>
    IN  IF ~(currentDate <= endDate) THEN slots
        ELSE IF getDay(zone, currentDate) = 0
             THEN SlotLoop(zone, config, NextLocalDay(zone, currentDate), slots)
             ELSE SlotLoop(zone, config, NextLocalDay(zone, currentDate),
                           slots \o morning \o evening)

generateTimeSlots(zone, config) ==
    SlotLoop(zone, config, ParseDate(config.startDate), <<>>)

\* Whether generateTimeSlots ends by the exception of getDayName.
Throws(slots) == \E k \in 1..Len(slots) : slots[k].day = "Sunday"

(***************************************************************************)
(* Helpers over assignment lists.  The list is kept up to order, as a bag. *)
(***************************************************************************)
Min(a, b) == IF a < b THEN a ELSE b

\* The sum of f over S; with a bag f and S a part of its domain, the length
\* of the list filtered down to S.
RECURSIVE SumOver(_, _)
SumOver(S, f) ==
    IF S = {} THEN 0
    ELSE LET x == CHOOSE y \in S : TRUE
         IN  f[x] + SumOver(S \ {x}, f)

\* The bag of the elements of a sequence.
RECURSIVE BagOfSeq(_)
BagOfSeq(s) ==
    IF s = <<>> THEN EmptyBag ELSE SetToBag({Head(s)}) (+) BagOfSeq(Tail(s))

\* The sequences of k pairwise distinct elements of S: the first k places of
\* the shuffles of S.
InjSeqs(S, k) ==
    {s \in [1..k -> S] : \A i, j \in 1..k : i # j => s[i] # s[j]}

(***************************************************************************)
(* Availability predicate                                                  *)
(***************************************************************************)
\* canPersonWorkSlot without its check of the Morning exclusion.
canPersonWorkSlotNoMorningCheck(person, timeSlot) ==
    IF timeSlot.time = "Evening" /\ person.excludeEveningShifts THEN FALSE
    ELSE IF person.availableDates # {} /\ timeSlot.date \notin person.availableDates
         THEN FALSE
    ELSE IF person.unavailableDates # {} /\ timeSlot.date \in person.unavailableDates
         THEN FALSE
    ELSE TRUE

\* canPersonWorkSlot checking the shift exclusions alone, not the date lists.
canPersonWorkSlotFlagsOnly(person, timeSlot) ==
    IF timeSlot.time = "Morning" /\ person.excludeMorningShifts THEN FALSE
    ELSE IF timeSlot.time = "Evening" /\ person.excludeEveningShifts THEN FALSE
    ELSE TRUE

canPersonWorkSlot(person, timeSlot) ==
    IF timeSlot.time = "Morning" /\ person.excludeMorningShifts THEN FALSE
    ELSE IF timeSlot.time = "Evening" /\ person.excludeEveningShifts THEN FALSE
    ELSE IF person.availableDates # {} /\ timeSlot.date \notin person.availableDates
         THEN FALSE
    ELSE IF person.unavailableDates # {} /\ timeSlot.date \in person.unavailableDates
         THEN FALSE
    ELSE TRUE

getPersonAssignmentCount(as, personId) ==
    SumOver({a \in DOMAIN as : a.personId = personId}, as)

getStationAssignmentCount(as, stationId) ==
    SumOver({a \in DOMAIN as : a.stationId = stationId}, as)

isPersonAvailableForSlot(as, personId, timeSlot) ==
    ~ \E a \in DOMAIN as :
          /\ a.personId = personId
          /\ a.dayOfWeek = timeSlot.day
          /\ a.timeSlot = timeSlot.time
          /\ a.date = timeSlot.date

getPersonStationCount(as, personId, stationId) ==
    SumOver({a \in DOMAIN as : a.personId = personId /\ a.stationId = stationId}, as)

(***************************************************************************)
(* Candidate selection.  The result is the set of the lists the random     *)
(* tie-breaks and shuffles can return.                                     *)
(***************************************************************************)
Score(as, person, stationId) ==
    getPersonAssignmentCount(as, person.id) * 10
        + getPersonStationCount(as, person.id, stationId) * 5

\* findBestPersonsForSlot returning candidates of the lowest score only,
\* without filling the remaining places from the other candidates.
findBestPersonsOnlyBest(ps, as, timeSlot, stationId, count) ==
    LET availablePersons ==
            {i \in 1..Len(ps) : /\ canPersonWorkSlot(ps[i], timeSlot)
                                /\ isPersonAvailableForSlot(as, ps[i].id, timeSlot)}
        score == [i \in availablePersons |-> Score(as, ps[i], stationId)]
        bestCandidates ==
            {i \in availablePersons : \A j \in availablePersons : score[i] <= score[j]}
        picks == InjSeqs(bestCandidates, Min(count, Cardinality(bestCandidates)))
    IN  IF availablePersons = {} THEN {<<>>}
        ELSE {[k \in 1..Len(s) |-> ps[s[k]]] : s \in picks}

\* findBestPersonsForSlot filtering by canPersonWorkSlot alone: a person
\* already assigned at the date and shift stays a candidate.
findBestPersonsAmongBooked(ps, as, timeSlot, stationId, count) ==
    LET availablePersons ==
            {i \in 1..Len(ps) : canPersonWorkSlot(ps[i], timeSlot)}
        score == [i \in availablePersons |-> Score(as, ps[i], stationId)]
        bestCandidates ==
            {i \in availablePersons : \A j \in availablePersons : score[i] <= score[j]}
        remaining == availablePersons \ bestCandidates
        nBest == Cardinality(bestCandidates)
        picks ==
            IF nBest >= count
            THEN InjSeqs(bestCandidates, count)
            ELSE {b \o r : b \in InjSeqs(bestCandidates, nBest),
                           r \in InjSeqs(remaining,
                                         Min(count - nBest, Cardinality(remaining)))}
    IN  IF availablePersons = {} THEN {<<>>}
        ELSE {[k \in 1..Len(s) |-> ps[s[k]]] : s \in picks}

findBestPersonsForSlot(ps, as, timeSlot, stationId, count) ==
    LET availablePersons ==
            {i \in 1..Len(ps) : /\ canPersonWorkSlot(ps[i], timeSlot)
                                /\ isPersonAvailableForSlot(as, ps[i].id, timeSlot)}
        score == [i \in availablePersons |-> Score(as, ps[i], stationId)]
        bestCandidates ==
            {i \in availablePersons : \A j \in availablePersons : score[i] <= score[j]}
        remaining == availablePersons \ bestCandidates
        nBest == Cardinality(bestCandidates)
        picks ==
            IF nBest >= count
            THEN InjSeqs(bestCandidates, count)
            ELSE {b \o r : b \in InjSeqs(bestCandidates, nBest),
                           r \in InjSeqs(remaining,
                                         Min(count - nBest, Cardinality(remaining)))}
    IN  IF availablePersons = {} THEN {<<>>}
        ELSE {[k \in 1..Len(s) |-> ps[s[k]]] : s \in picks}

(***************************************************************************)
(* Fairness metrics.  The score of unequal counts is                       *)
(* exp(-variance / ideal) with variance / ideal = num / den below; it is   *)
(* kept as that fraction, and the score 1 as the fraction 0 / 1.           *)
(***************************************************************************)
SetMin(S) == CHOOSE x \in S : \A y \in S : x <= y
SetMax(S) == CHOOSE x \in S : \A y \in S : x >= y

ExactlyOne == [num |-> 0, den |-> 1]

\* The metrics with counters only for the persons that have an assignment.
calculateFairnessMetricsAssignedOnly(ps, sts, as) ==
    LET personIds == {ps[i].id : i \in 1..Len(ps)} \cap {a.personId : a \in DOMAIN as}
        stationIds == {sts[i].id : i \in 1..Len(sts)}
        assignmentsPerPerson ==
            [id \in personIds |-> getPersonAssignmentCount(as, id)]
        assignmentsPerStation ==
            [id \in stationIds |-> getStationAssignmentCount(as, id)]
        assignmentCounts == {assignmentsPerPerson[id] : id \in personIds}
        totalAssignments == BagCardinality(as)
        n == Len(ps)
    IN  IF personIds = {} \/ assignmentCounts = {0}
        THEN [assignmentsPerPerson |-> assignmentsPerPerson,
              assignmentsPerStation |-> assignmentsPerStation,
              minAssignments |-> 0, maxAssignments |-> 0,
              fairnessScore |-> ExactlyOne]
        ELSE IF SetMax(assignmentCounts) - SetMin(assignmentCounts) = 0
        THEN [assignmentsPerPerson |-> assignmentsPerPerson,
              assignmentsPerStation |-> assignmentsPerStation,
              minAssignments |-> SetMin(assignmentCounts),
              maxAssignments |-> SetMax(assignmentCounts),
              fairnessScore |-> ExactlyOne]
        ELSE [assignmentsPerPerson |-> assignmentsPerPerson,
              assignmentsPerStation |-> assignmentsPerStation,
              minAssignments |-> SetMin(assignmentCounts),
              maxAssignments |-> SetMax(assignmentCounts),
              fairnessScore |->
                  [num |-> SumOver(personIds,
                               [id \in personIds |->
                                   (n * assignmentsPerPerson[id] - totalAssignments)
                                 * (n * assignmentsPerPerson[id] - totalAssignments)]),
                   den |-> n * n * totalAssignments]]

\* The metrics with a range of 1 taken for perfectly fair.
calculateFairnessMetricsWithinOne(ps, sts, as) ==
    LET personIds == {ps[i].id : i \in 1..Len(ps)}
        stationIds == {sts[i].id : i \in 1..Len(sts)}
        assignmentsPerPerson ==
            [id \in personIds |-> getPersonAssignmentCount(as, id)]
        assignmentsPerStation ==
            [id \in stationIds |-> getStationAssignmentCount(as, id)]
        assignmentCounts == {assignmentsPerPerson[id] : id \in personIds}
        totalAssignments == BagCardinality(as)
        n == Len(ps)
    IN  IF personIds = {} \/ assignmentCounts = {0}
        THEN [assignmentsPerPerson |-> assignmentsPerPerson,
              assignmentsPerStation |-> assignmentsPerStation,
              minAssignments |-> 0, maxAssignments |-> 0,
              fairnessScore |-> ExactlyOne]
        ELSE IF SetMax(assignmentCounts) - SetMin(assignmentCounts) <= 1
        THEN [assignmentsPerPerson |-> assignmentsPerPerson,
              assignmentsPerStation |-> assignmentsPerStation,
              minAssignments |-> SetMin(assignmentCounts),
              maxAssignments |-> SetMax(assignmentCounts),
              fairnessScore |-> ExactlyOne]
        ELSE [assignmentsPerPerson |-> assignmentsPerPerson,
              assignmentsPerStation |-> assignmentsPerStation,
              minAssignments |-> SetMin(assignmentCounts),
              maxAssignments |-> SetMax(assignmentCounts),
              fairnessScore |->
                  [num |-> SumOver(personIds,
                               [id \in personIds |->
                                   (n * assignmentsPerPerson[id] - totalAssignments)
                                 * (n * assignmentsPerPerson[id] - totalAssignments)]),
                   den |-> n * n * totalAssignments]]

\* calculateFairnessMetrics over the persons ps, the active stations sts and
\* the assignment list as.
calculateFairnessMetrics(ps, sts, as) ==
    LET personIds == {ps[i].id : i \in 1..Len(ps)}
        stationIds == {sts[i].id : i \in 1..Len(sts)}
        assignmentsPerPerson ==
            [id \in personIds |-> getPersonAssignmentCount(as, id)]
        assignmentsPerStation ==
            [id \in stationIds |-> getStationAssignmentCount(as, id)]
        assignmentCounts == {assignmentsPerPerson[id] : id \in personIds}
        totalAssignments == BagCardinality(as)
        n == Len(ps)
    IN  IF personIds = {} \/ assignmentCounts = {0}
        THEN [assignmentsPerPerson |-> assignmentsPerPerson,
              assignmentsPerStation |-> assignmentsPerStation,
              minAssignments |-> 0, maxAssignments |-> 0,
              fairnessScore |-> ExactlyOne]
        ELSE IF SetMax(assignmentCounts) - SetMin(assignmentCounts) = 0
        THEN [assignmentsPerPerson |-> assignmentsPerPerson,
              assignmentsPerStation |-> assignmentsPerStation,
              minAssignments |-> SetMin(assignmentCounts),
              maxAssignments |-> SetMax(assignmentCounts),
              fairnessScore |-> ExactlyOne]
        ELSE [assignmentsPerPerson |-> assignmentsPerPerson,
              assignmentsPerStation |-> assignmentsPerStation,
              minAssignments |-> SetMin(assignmentCounts),
              maxAssignments |-> SetMax(assignmentCounts),
              fairnessScore |->
                  [num |-> SumOver(personIds,
                               [id \in personIds |->
                                   (n * assignmentsPerPerson[id] - totalAssignments)
                                 * (n * assignmentsPerPerson[id] - totalAssignments)]),
                   den |-> n * n * totalAssignments]]

\* fairnessScore > 0.8, that is num / den < -ln 0.8 = 0.22314355...: the
\* fraction LnNum / LnDen is a continued-fraction convergent of -ln 0.8, so
\* no fraction of a denominator below LnDen lies between the two.
LnNum == 592
LnDen == 2653
ScoreAboveThreshold(score) == score.num * LnDen < LnNum * score.den

(***************************************************************************)
(* Inputs                                                                  *)
(***************************************************************************)
StationNames == <<"Pool", "TT-Platten", "Klettergeruest", "Spieletheke">>

DateLists == {{}, {ListDate}}

PersonShapes ==
    [excludeMorningShifts : BOOLEAN, excludeEveningShifts : BOOLEAN,
     availableDates : DateLists, unavailableDates : DateLists]

Unconstrained ==
    [excludeMorningShifts |-> FALSE, excludeEveningShifts |-> FALSE,
     availableDates |-> {}, unavailableDates |-> {}]

IsUnconstrained(person) ==
    /\ ~person.excludeMorningShifts
    /\ ~person.excludeEveningShifts
    /\ person.availableDates = {}
    /\ person.unavailableDates = {}

Person(i, shape) ==
    [id |-> i,
     excludeMorningShifts |-> shape.excludeMorningShifts,
     excludeEveningShifts |-> shape.excludeEveningShifts,
     availableDates |-> shape.availableDates,
     unavailableDates |-> shape.unavailableDates]

\* Lists of up to MaxPersons persons with distinct ids; the first person
\* carries any constraints, the others none.
PersonLists ==
    UNION {{[i \in 1..n |-> Person(i, IF i = 1 THEN shape ELSE Unconstrained)] :
                shape \in PersonShapes} :
           n \in 0..MaxPersons}

StationLists ==
    UNION {{[i \in 1..n |-> [id |-> i, name |-> StationNames[i],
                             active |-> f[i]]] :
                f \in [1..n -> BOOLEAN]} : n \in 0..MaxStations}

\* Schedule configurations of the engine runs: start and end in 1..MaxDay,
\* at most MaxSpan days apart, in either order.
Configs ==
    {Config(r[1], r[2], m, v) :
        r \in {q \in (1..MaxDay) \X (1..MaxDay) :
                  q[2] - q[1] <= MaxSpan /\ q[1] - q[2] <= MaxSpan},
        m \in BOOLEAN, v \in BOOLEAN}

\* Schedule configurations of the slot-generation runs.
SlotConfigs ==
    {Config(s, e, m, v) : s \in 1..MaxSlotDay, e \in 1..MaxSlotDay,
                          m \in BOOLEAN, v \in BOOLEAN}

ActiveStations(sts) == SelectSeq(sts, LAMBDA st : st.active)

Work(zone, c) ==
    Len(c.persons) * Len(ActiveStations(c.stations))
        * Len(generateTimeSlots(zone, c.scheduleConfig))

Constraints ==
    [persons : PersonLists, stations : StationLists, scheduleConfig : Configs]

(***************************************************************************)
(* The engine                                                              *)
(***************************************************************************)
NoMetrics == calculateFairnessMetrics(<<>>, <<>>, EmptyBag)
NoResult ==
    [assignments |-> EmptyBag, fairnessMetrics |-> NoMetrics,
     success |-> FALSE, errors |-> EmptyBag]

\* No earlier call: the caller holds no result of this engine.
NoEarlier == [held |-> FALSE, result |-> NoResult, shared |-> FALSE]

\* The entries of sessionStorage: one that it does not hold (getItem returns
\* null) is the empty sequence, one that it holds the sequence of its value.
Absent == <<>>

Stored(value) == <<value>>

EmptyStore ==
    [persons |-> Absent, stations |-> Absent, assignments |-> Absent,
     scheduleConfig |-> Absent, fairnessMetrics |-> Absent]

FirstId == 5

EngineInit ==
    /\ persons = <<>>
    /\ stations = <<>>
    /\ timeSlots = <<>>
    /\ assignments = EmptyBag
    /\ pc = "idle"
    /\ iteration = 0
    /\ errors = EmptyBag
    /\ currentIterationErrors = EmptyBag
    /\ todoSlots = {}
    /\ curSlot = 0
    /\ todoStations = {}
    /\ passes = 0
    /\ result = NoResult
    /\ earlier = NoEarlier

\* The application before any page is opened: an empty session store.
AppAtRest ==
    /\ store = EmptyStore
    /\ page = [route |-> "home"]
    /\ timers = {}
    /\ nextId = FirstId

Init ==
    /\ tz \in EngineTimeZones
    /\ constraints \in Constraints
    /\ Work(tz, constraints) <= MaxWork
    /\ EngineInit
    /\ AppAtRest

\* The validation without the capacity check.
ValidationErrorsNoCapacity(ps, sts, slots) ==
    (IF Len(ps) = 0 THEN <<[kind |-> "noPersons"]>> ELSE <<>>)
     \o (IF Len(sts) = 0 THEN <<[kind |-> "noStations"]>> ELSE <<>>)

\* The validation without the check for active stations.
ValidationErrorsNoStations(ps, sts, slots) ==
    LET totalSlotsNeeded == Len(slots) * Len(sts) * 2
        maxPossibleAssignments == Len(ps) * Len(slots)
    IN  (IF Len(ps) = 0 THEN <<[kind |-> "noPersons"]>> ELSE <<>>)
     \o (IF totalSlotsNeeded > maxPossibleAssignments
         THEN <<[kind |-> "capacity", needed |-> totalSlotsNeeded,
                 possible |-> maxPossibleAssignments]>>
         ELSE <<>>)

\* The validation of generateSchedule: the diagnostics it pushes, in order.
ValidationErrors(ps, sts, slots) ==
    LET totalSlotsNeeded == Len(slots) * Len(sts) * 2
        maxPossibleAssignments == Len(ps) * Len(slots)
    IN  (IF Len(ps) = 0 THEN <<[kind |-> "noPersons"]>> ELSE <<>>)
     \o (IF Len(sts) = 0 THEN <<[kind |-> "noStations"]>> ELSE <<>>)
     \o (IF totalSlotsNeeded > maxPossibleAssignments
         THEN <<[kind |-> "capacity", needed |-> totalSlotsNeeded,
                 possible |-> maxPossibleAssignments]>>
         ELSE <<>>)

\* this.assignments = [] through a cleared array (length = 0) instead of a
\* new one: the list stays the array of the earlier result.
SharedAfterClearInPlace(shared) == shared

\* Whether this.assignments is still the array of the earlier result after
\* the statement this.assignments = [], which makes a new array.
SharedAfterReset(shared) == FALSE

\* The earlier result as its holder sees it once this.assignments holds as.
Held(e, shared, as) ==
    [e EXCEPT !.shared = shared,
              !.result.assignments = IF shared THEN as ELSE @]

\* generateSchedule up to the call of generateOptimizedAssignments.  The
\* exception of generateTimeSlots leaves the call before this.assignments
\* is set.
GenerateSchedule ==
    /\ pc = "idle"
    /\ persons' = constraints.persons
    /\ stations' = ActiveStations(constraints.stations)
    /\ LET slots == generateTimeSlots(tz, constraints.scheduleConfig)
           errs == ValidationErrors(persons', stations', slots)
       IN  IF Throws(slots)
           THEN /\ pc' = "thrown"
                /\ UNCHANGED <<timeSlots, assignments, result, iteration, errors,
                               earlier>>
           ELSE /\ timeSlots' = slots
                /\ assignments' = EmptyBag
                /\ earlier' = Held(earlier, SharedAfterReset(earlier.shared),
                                   EmptyBag)
                /\ IF Len(errs) > 0
                   THEN /\ result' = [assignments |-> EmptyBag,
                                      fairnessMetrics |->
                                          calculateFairnessMetrics(persons', stations',
                                                                   EmptyBag),
                                      success |-> FALSE,
                                      errors |-> BagOfSeq(errs)]
                        /\ pc' = "done"
                   ELSE /\ result' = result
                        /\ pc' = "loop"
                /\ iteration' = 0
                /\ errors' = EmptyBag
    /\ UNCHANGED <<tz, constraints, currentIterationErrors, todoSlots, curSlot,
                   todoStations, passes>>
    /\ UNCHANGED appVars

\* A retry that goes on with the assignments of the pass before.
KeptForRetry(iter, as) == as

\* this.assignments at the head of the iteration iter: a new list for a
\* retry.
ClearedForRetry(iter, as) == IF iter > 0 THEN EmptyBag ELSE as

\* The head of an iteration of the retry loop: the assignments of the pass
\* before are dropped and the slots are shuffled.  Without a station the
\* loop over the stations of each slot has no body to run.
StartPass ==
    /\ pc = "loop"
    /\ assignments' = ClearedForRetry(iteration, assignments)
    /\ earlier' = IF iteration > 0
                  THEN Held(earlier, SharedAfterReset(earlier.shared), EmptyBag)
                  ELSE earlier
    /\ todoSlots' = IF Len(stations) = 0 THEN {} ELSE 1..Len(timeSlots)
    /\ curSlot' = 0
    /\ todoStations' = {}
    /\ currentIterationErrors' = EmptyBag
    /\ passes' = passes + 1
    /\ pc' = "pass"
    /\ UNCHANGED <<tz, constraints, persons, stations, timeSlots, iteration,
                   errors, result>>
    /\ UNCHANGED appVars

Assignment(timeSlot, station, person) ==
    [dayOfWeek |-> timeSlot.day, timeSlot |-> timeSlot.time,
     stationId |-> station.id, personId |-> person.id, date |-> timeSlot.date]

Diagnostic(kind, timeSlot, station) ==
    [kind |-> kind, day |-> timeSlot.day, time |-> timeSlot.time,
     station |-> station.name]

\* The slots the shuffled order can bring next: the weeks are processed in
\* ascending order, the slots of a week in shuffled order.
NextSlots ==
    {s \in todoSlots :
        \A u \in todoSlots : timeSlots[s].weekNumber <= timeSlots[u].weekNumber}

\* Assigned dropping the single person of a partially staffed pair.
AssignedPairsOnly(timeSlot, station, sel) ==
    IF Len(sel) >= 2
    THEN BagOfSeq([k \in 1..Len(sel) |-> Assignment(timeSlot, station, sel[k])])
    ELSE EmptyBag

\* What one (slot, station) pair adds to the assignment list.
Assigned(timeSlot, station, sel) ==
    IF Len(sel) >= 2
    THEN BagOfSeq([k \in 1..Len(sel) |-> Assignment(timeSlot, station, sel[k])])
    ELSE IF Len(sel) = 1
    THEN SetToBag({Assignment(timeSlot, station, sel[1])})
    ELSE EmptyBag

\* Diagnosed recording no diagnostic for a pair staffed by one person.
DiagnosedNoneOnly(timeSlot, station, sel) ==
    IF Len(sel) >= 1 THEN EmptyBag
    ELSE SetToBag({Diagnostic("none", timeSlot, station)})

\* What one (slot, station) pair adds to the diagnostics of the pass.
Diagnosed(timeSlot, station, sel) ==
    IF Len(sel) >= 2 THEN EmptyBag
    ELSE IF Len(sel) = 1 THEN SetToBag({Diagnostic("one", timeSlot, station)})
    ELSE SetToBag({Diagnostic("none", timeSlot, station)})

\* One (slot, station) pair of a pass.
AssignStation ==
    /\ pc = "pass"
    /\ \E s \in (IF curSlot = 0 THEN NextSlots ELSE {curSlot}) :
       \E st \in (IF curSlot = 0 THEN 1..Len(stations) ELSE todoStations) :
       \E sel \in findBestPersonsForSlot(persons, assignments, timeSlots[s],
                                         stations[st].id, 2) :
          LET rest == (IF curSlot = 0 THEN 1..Len(stations) ELSE todoStations) \ {st}
          IN  /\ assignments' =
                     assignments (+) Assigned(timeSlots[s], stations[st], sel)
              /\ currentIterationErrors' =
                     currentIterationErrors
                         (+) Diagnosed(timeSlots[s], stations[st], sel)
              /\ todoSlots' = todoSlots \ {s}
              /\ todoStations' = rest
              /\ curSlot' = IF rest = {} THEN 0 ELSE s
    /\ earlier' = Held(earlier, earlier.shared, assignments')
    /\ UNCHANGED <<tz, constraints, persons, stations, timeSlots, pc, iteration,
                   errors, passes, result>>
    /\ UNCHANGED appVars

maxIterations == 3

\* The errors kept after a pass.
KeptErrors(iter, metrics, kept, current) ==
    IF iter = 0 \/ ScoreAboveThreshold(metrics.fairnessScore) THEN current ELSE kept

\* The retry loop ended on the fairness score alone, without a last
\* iteration.
StopsOnScoreOnly(metrics, iter) == ScoreAboveThreshold(metrics.fairnessScore)

\* The test that ends the retry loop after the pass of the iteration iter.
StopsLoop(metrics, iter) ==
    ScoreAboveThreshold(metrics.fairnessScore) \/ iter = maxIterations - 1

\* The end of a pass: either the loop goes on, or generateOptimizedAssignments
\* returns and generateSchedule builds its result.
EndPass ==
    /\ pc = "pass"
    /\ curSlot = 0
    /\ todoSlots = {}
    /\ LET currentMetrics == calculateFairnessMetrics(persons, stations, assignments)
       IN  /\ errors' = KeptErrors(iteration, currentMetrics, errors,
                                   currentIterationErrors)
           /\ IF StopsLoop(currentMetrics, iteration)
              THEN /\ pc' = "done"
                   /\ iteration' = iteration
                   /\ result' = [assignments |-> assignments,
                                 fairnessMetrics |-> currentMetrics,
                                 success |-> BagCardinality(errors') = 0,
                                 errors |-> errors']
              ELSE /\ pc' = "loop"
                   /\ iteration' = iteration + 1
                   /\ result' = result
    /\ UNCHANGED <<tz, constraints, persons, stations, timeSlots, assignments,
                   currentIterationErrors, todoSlots, curSlot, todoStations, passes,
                   earlier>>
    /\ UNCHANGED appVars

Next == GenerateSchedule \/ StartPass \/ AssignStation \/ EndPass

Spec == Init /\ [][Next]_vars

\* The calls in the zone UTC; a call of generateSchedule runs on until it
\* returns.
LiveInit == Init /\ tz = UTC

LiveSpec == LiveInit /\ [][Next]_vars /\ WF_vars(Next)

(***************************************************************************)
(* Slot generation on its own: generateTimeSlots applied to a              *)
(* configuration drawn from SlotConfigs.                                   *)
(***************************************************************************)
SlotInit ==
    /\ tz \in TimeZones
    /\ constraints \in [persons : {<<>>}, stations : {<<>>},
                        scheduleConfig : SlotConfigs]
    /\ EngineInit
    /\ AppAtRest

GenerateTimeSlotsCall ==
    /\ pc = "idle"
    /\ timeSlots' = generateTimeSlots(tz, constraints.scheduleConfig)
    /\ pc' = "slots"
    /\ UNCHANGED <<tz, constraints, persons, stations, assignments, iteration,
                   errors, currentIterationErrors, todoSlots, curSlot,
                   todoStations, passes, result, earlier>>
    /\ UNCHANGED appVars

SlotNext == GenerateTimeSlotsCall

SlotSpec == SlotInit /\ [][SlotNext]_vars

(***************************************************************************)
(* Engine runs of a full person list at a single station: the inputs of    *)
(* Init with more persons x slots, in one zone.                            *)
(***************************************************************************)
WideConstraints ==
    [persons : {ps \in PersonLists : Len(ps) = MaxPersons},
     stations : {<<[id |-> 1, name |-> StationNames[1], active |-> TRUE]>>},
     scheduleConfig : Configs]

WideInit ==
    /\ tz = UTC
    /\ constraints \in WideConstraints
    /\ EngineInit
    /\ AppAtRest

WideSpec == WideInit /\ [][Next]_vars

(***************************************************************************)
(* Two calls of generateSchedule on one engine: the caller keeps the       *)
(* result of the first call and calls again with arguments of its choice.  *)
(***************************************************************************)
AgainConstraints ==
    [persons : {ps \in PersonLists :
                   /\ Len(ps) <= MaxAgainPersons
                   /\ \A i \in 1..Len(ps) : IsUnconstrained(ps[i])},
     stations : {sts \in StationLists : Len(sts) <= 1},
     scheduleConfig : {c \in Configs : c.startDate = 1 /\ c.endDate = 1}]

TwoCallInit ==
    /\ tz = UTC
    /\ constraints \in AgainConstraints
    /\ EngineInit
    /\ AppAtRest

\* The caller keeps the result returned and calls generateSchedule again.
\* The fields of the engine are as the first call left them; the list of
\* the result of a call that ran a pass is the array this.assignments.
CallAgain ==
    /\ pc = "done"
    /\ ~earlier.held
    /\ earlier' = [held |-> TRUE, result |-> result, shared |-> passes >= 1]
    /\ constraints' \in AgainConstraints
    /\ pc' = "idle"
    /\ passes' = 0
    /\ result' = NoResult
    /\ UNCHANGED <<tz, persons, stations, timeSlots, assignments, iteration,
                   errors, currentIterationErrors, todoSlots, curSlot,
                   todoStations>>
    /\ UNCHANGED appVars

TwoCallNext == Next \/ CallAgain

TwoCallSpec == TwoCallInit /\ [][TwoCallNext]_vars

(***************************************************************************)
(* Engine runs over the long date ranges of SlotConfigs, in every zone,    *)
(* with few persons: runs that end at the validation, or small ones.       *)
(***************************************************************************)
RangeConstraints ==
    [persons : {ps \in PersonLists :
                   /\ Len(ps) <= MaxRangePersons
                   /\ \A i \in 1..Len(ps) : IsUnconstrained(ps[i])},
     stations : {sts \in StationLists : Len(sts) <= 1},
     scheduleConfig : SlotConfigs]

RangeInit ==
    /\ tz \in TimeZones
    /\ constraints \in RangeConstraints
    /\ \/ Work(tz, constraints) <= MaxWork
       \/ Len(ValidationErrors(constraints.persons,
                               ActiveStations(constraints.stations),
                               generateTimeSlots(tz, constraints.scheduleConfig))) > 0
    /\ EngineInit
    /\ AppAtRest

RangeSpec == RangeInit /\ [][Next]_vars

(***************************************************************************)
(* Texts.  A text the user types or a file holds is a word, written with   *)
(* or without capital letters, with or without white space around it; the  *)
(* empty word is the empty (or blank) text.                                *)
(***************************************************************************)
Text(word, caps, pad) == [word |-> word, caps |-> caps, pad |-> pad]

trim(t) == [t EXCEPT !.pad = FALSE]

toLowerCase(t) == [t EXCEPT !.caps = FALSE]

\* !t.trim(): nothing but white space.
IsBlank(t) == t.word = ""

(***************************************************************************)
(* lib/utils/storage.ts                                                    *)
(***************************************************************************)
DEFAULT_STATIONS ==
    [i \in 1..Len(StationNames) |->
        [id |-> i, name |-> Text(StationNames[i], TRUE, FALSE), active |-> TRUE]]

loadStations(st) ==
    IF st.stations = Absent THEN DEFAULT_STATIONS ELSE st.stations[1]

saveStations(st, sts) == [st EXCEPT !.stations = Stored(sts)]

clearStations(st) == [st EXCEPT !.stations = Absent]

loadPersons(st) == IF st.persons = Absent THEN <<>> ELSE st.persons[1]

savePersons(st, ps) == [st EXCEPT !.persons = Stored(ps)]

clearPersons(st) == [st EXCEPT !.persons = Absent]

\* The stored assignments by the person and the station each of them names.
loadAssignments(st) ==
    IF st.assignments = Absent THEN {} ELSE st.assignments[1]

saveAssignments(st, as) == [st EXCEPT !.assignments = Stored(as)]

clearAssignments(st) == [st EXCEPT !.assignments = Absent]

\* The default of loadScheduleConfig, the Monday to the Saturday of the
\* coming week, for a today of the days 1..5.
DefaultScheduleConfig == Config(5, 10, FALSE, TRUE)

loadScheduleConfig(st) ==
    IF st.scheduleConfig = Absent THEN DefaultScheduleConfig
    ELSE st.scheduleConfig[1]

saveScheduleConfig(st, config) == [st EXCEPT !.scheduleConfig = Stored(config)]

clearScheduleConfig(st) == [st EXCEPT !.scheduleConfig = Absent]

\* null is the absent entry.
loadFairnessMetrics(st) == st.fairnessMetrics

saveFairnessMetrics(st, metrics) ==
    [st EXCEPT !.fairnessMetrics = Stored(metrics)]

\* A clearAllData that leaves the entry of the fairness metrics.
clearAllDataButMetrics(st) ==
    [st EXCEPT !.persons = Absent, !.stations = Absent,
               !.assignments = Absent, !.scheduleConfig = Absent]

clearAllData(st) ==
    [st EXCEPT !.persons = Absent, !.stations = Absent,
               !.assignments = Absent, !.scheduleConfig = Absent,
               !.fairnessMetrics = Absent]

\* The state of the configuration page after its mount effect.
ConfigurationPage(st) ==
    [route |-> "configuration", stations |-> loadStations(st),
     personsCount |-> Len(loadPersons(st)),
     scheduleConfig |-> loadScheduleConfig(st)]

(***************************************************************************)
(* The configuration page: its station handlers.                           *)
(***************************************************************************)
StationLimit == 10

\* Names typed for new stations: the station that gets the id i is given a
\* name of its own.
NewStationNames ==
    <<"Bistro", "Kiosk", "Werkbank", "Lagerfeuer", "Bolzplatz", "Kicker",
      "Slackline", "Bibliothek">>

SpareName == Text("Empfang", TRUE, FALSE)

NoError == "none"

ActiveCount(sts) == Len(SelectSeq(sts, LAMBDA station : station.active))

StationIds(sts) == {sts[i].id : i \in 1..Len(sts)}

\* The station list without the stations of the id.
WithoutStation(sts, stationId) ==
    SelectSeq(sts, LAMBDA station : station.id # stationId)

\* handleAddStation: the new list and the error shown.
AddStation(sts, newStationName, id) ==
    IF IsBlank(trim(newStationName))
    THEN [stations |-> sts, error |-> "emptyName"]
    ELSE IF \E i \in 1..Len(sts) :
                toLowerCase(sts[i].name) = toLowerCase(newStationName)
    THEN [stations |-> sts, error |-> "duplicate"]
    ELSE IF Len(sts) >= StationLimit
    THEN [stations |-> sts, error |-> "max"]
    ELSE [stations |-> Append(sts, [id |-> id, name |-> trim(newStationName),
                                    active |-> TRUE]),
          error |-> NoError]

\* handleRemoveStation without its check of the active stations.
RemoveStationUnchecked(sts, stationId) ==
    [stations |-> WithoutStation(sts, stationId), error |-> NoError]

\* handleRemoveStation.
RemoveStation(sts, stationId) ==
    IF ActiveCount(sts) <= 1
    THEN [stations |-> sts, error |-> "minActive"]
    ELSE [stations |-> WithoutStation(sts, stationId), error |-> NoError]

\* handleToggleStation.
ToggleStation(sts, stationId) ==
    LET updatedStations ==
            [i \in 1..Len(sts) |->
                IF sts[i].id = stationId
                THEN [sts[i] EXCEPT !.active = ~sts[i].active]
                ELSE sts[i]]
    IN  IF ActiveCount(updatedStations) = 0
        THEN [stations |-> sts, error |-> "minActive"]
        ELSE [stations |-> updatedStations, error |-> NoError]

\* handleRenameStation.
RenameStation(sts, stationId, newName) ==
    IF IsBlank(trim(newName))
    THEN [stations |-> sts, error |-> "emptyName"]
    ELSE IF \E i \in 1..Len(sts) :
                /\ sts[i].id # stationId
                /\ toLowerCase(sts[i].name) = toLowerCase(newName)
    THEN [stations |-> sts, error |-> "duplicate"]
    ELSE [stations |->
              [i \in 1..Len(sts) |->
                  IF sts[i].id = stationId
                  THEN [sts[i] EXCEPT !.name = trim(newName)]
                  ELSE sts[i]],
          error |-> NoError]

\* What a station handler leaves: the list is saved when it is changed.
\* The message that setError shows is display only and not kept.
StationsHandled(out) ==
    /\ page' = [page EXCEPT !.stations = out.stations]
    /\ store' = IF out.error = NoError THEN saveStations(store, out.stations)
                ELSE store

\* The names typed into the field of a new station: nothing, the name of
\* the first station of the list, or the name meant for the station.
AddInputs ==
    {Text("", FALSE, TRUE), page.stations[1].name,
     Text(NewStationNames[nextId - FirstId + 1], TRUE, FALSE)}

handleAddStation ==
    /\ page.route = "configuration"
    /\ \E newStationName \in AddInputs :
          LET out == AddStation(page.stations, newStationName, nextId)
          IN  /\ out.error = NoError => nextId < FirstId + MaxStationAdds
              /\ StationsHandled(out)
              /\ nextId' = IF out.error = NoError THEN nextId + 1 ELSE nextId
    /\ UNCHANGED timers
    /\ UNCHANGED engineVars

\* The remove button of a station is disabled while the list has one entry.
handleRemoveStation ==
    /\ page.route = "configuration"
    /\ Len(page.stations) > 1
    /\ \E stationId \in StationIds(page.stations) :
          StationsHandled(RemoveStation(page.stations, stationId))
    /\ UNCHANGED <<timers, nextId>>
    /\ UNCHANGED engineVars

handleToggleStation ==
    /\ page.route = "configuration"
    /\ \E stationId \in StationIds(page.stations) :
          StationsHandled(ToggleStation(page.stations, stationId))
    /\ UNCHANGED <<timers, nextId>>
    /\ UNCHANGED engineVars

\* The names typed into the field of the first station of the list:
\* nothing, the name of another station, or a name of its own.
handleRenameStation ==
    /\ page.route = "configuration"
    /\ \E newName \in {Text("", FALSE, FALSE), SpareName}
                        \cup {page.stations[j].name : j \in 2..Len(page.stations)} :
          StationsHandled(RenameStation(page.stations, page.stations[1].id, newName))
    /\ UNCHANGED <<timers, nextId>>
    /\ UNCHANGED engineVars

handleResetToDefault ==
    /\ page.route = "configuration"
    /\ store' = clearStations(store)
    /\ page' = [page EXCEPT !.stations = loadStations(store')]
    /\ UNCHANGED <<timers, nextId>>
    /\ UNCHANGED engineVars

\* The engine while the pages are at work: not in a call.
EngineAtRest ==
    /\ tz = UTC
    /\ constraints = [persons |-> <<>>, stations |-> <<>>,
                      scheduleConfig |-> Config(1, 1, TRUE, TRUE)]
    /\ EngineInit

\* The configuration page opened in a new session: it shows the defaults.
StationInit ==
    /\ EngineAtRest
    /\ store = EmptyStore
    /\ page = ConfigurationPage(store)
    /\ timers = {}
    /\ nextId = FirstId

StationNext ==
    \/ handleAddStation
    \/ handleRemoveStation
    \/ handleToggleStation
    \/ handleRenameStation
    \/ handleResetToDefault

StationSpec == StationInit /\ [][StationNext]_vars

(***************************************************************************)
(* The import page: manual entry and CSV upload.                           *)
(***************************************************************************)
PersonWords == {"anna", "ben"}

\* What is typed into the name field.
PersonInputs ==
    {Text(w, c, pd) : w \in PersonWords \cup {""}, c \in BOOLEAN, pd \in BOOLEAN}

\* The data rows of a CSV file by the full name their columns give; the
\* empty word is a row whose name columns are empty.  Blank lines, which
\* parseCSV skips, are left out.
CSVFiles ==
    UNION {[1..n -> {Text(w, c, FALSE) : w \in PersonWords \cup {""},
                                         c \in BOOLEAN}] : n \in 1..MaxRows}

\* parseCSV: a person of a fresh id per row, an error per row without a
\* name; success when there is no error.
parseCSV(rows, firstId) ==
    [success |-> \A k \in 1..Len(rows) : ~IsBlank(trim(rows[k])),
     data |-> [k \in 1..Len(rows) |-> [id |-> firstId + k - 1,
                                       name |-> trim(rows[k])]]]

\* The persons that handleFileUpload keeps of the parsed ones: those whose
\* name, in lower case, is not the name of a person of the list existing.
NewPersons(data, existing) ==
    SelectSeq(data, LAMBDA q :
        ~\E i \in 1..Len(existing) :
            toLowerCase(existing[i].name) = toLowerCase(q.name))

\* The persons state after a handler, and the effect that saves it.
PersonsSet(ps) ==
    /\ page' = [page EXCEPT !.persons = ps]
    /\ store' = savePersons(store, ps)

addPerson ==
    /\ page.route = "import"
    /\ nextId < FirstId + MaxPersonIds
    /\ \E newPersonName \in PersonInputs :
          /\ ~IsBlank(trim(newPersonName))
          /\ ~\E i \in 1..Len(page.persons) :
                 toLowerCase(page.persons[i].name) = toLowerCase(newPersonName)
          /\ PersonsSet(Append(page.persons,
                               [id |-> nextId, name |-> trim(newPersonName)]))
    /\ nextId' = nextId + 1
    /\ UNCHANGED timers
    /\ UNCHANGED engineVars

removePerson ==
    /\ page.route = "import"
    /\ \E i \in 1..Len(page.persons) :
          PersonsSet(SelectSeq(page.persons,
                               LAMBDA q : q.id # page.persons[i].id))
    /\ UNCHANGED <<timers, nextId>>
    /\ UNCHANGED engineVars

\* handleFileUpload for a CSV file: the reader is started; its onload
\* callback holds the persons of the render that made the handler.
handleFileUpload ==
    /\ page.route = "import"
    /\ page.reading = {}
    /\ \E rows \in CSVFiles :
          page' = [page EXCEPT !.reading = {[rows |-> rows,
                                            existing |-> page.persons]}]
    /\ UNCHANGED <<store, timers, nextId>>
    /\ UNCHANGED engineVars

\* reader.onload.
ReaderOnload ==
    /\ page.route = "import"
    /\ \E read \in page.reading :
          LET parseResult == parseCSV(read.rows, nextId)
              ps == IF parseResult.success
                    THEN page.persons \o NewPersons(parseResult.data, read.existing)
                    ELSE page.persons
          IN  /\ nextId + Len(read.rows) <= FirstId + MaxPersonIds
              /\ page' = [page EXCEPT !.persons = ps, !.reading = {}]
              /\ store' = savePersons(store, ps)
              /\ nextId' = nextId + Len(read.rows)
    /\ UNCHANGED timers
    /\ UNCHANGED engineVars

\* The clear button of the import page, confirmed: the entry is removed and
\* the effect then saves the empty list.
clearImportedData ==
    /\ page.route = "import"
    /\ Len(page.persons) > 0
    /\ page' = [page EXCEPT !.persons = <<>>]
    /\ store' = savePersons(clearPersons(store), <<>>)
    /\ UNCHANGED <<timers, nextId>>
    /\ UNCHANGED engineVars

\* The import page opened in a new session.
ImportInit ==
    /\ EngineAtRest
    /\ store = savePersons(EmptyStore, <<>>)
    /\ page = [route |-> "import", persons |-> <<>>, reading |-> {}]
    /\ timers = {}
    /\ nextId = FirstId

ImportNext ==
    \/ addPerson
    \/ removePerson
    \/ handleFileUpload
    \/ ReaderOnload
    \/ clearImportedData

ImportSpec == ImportInit /\ [][ImportNext]_vars

(***************************************************************************)
(* The workflow: the pages, the navigation between them, the generation on *)
(* the schedule page, the export on the display page and the callbacks of  *)
(* setTimeout.                                                             *)
(***************************************************************************)
HomePage == [route |-> "home"]

\* The state of the import page after its mount effect.
ImportPage(st) ==
    [route |-> "import", persons |-> loadPersons(st), reading |-> {}]

\* The state of the schedule page after its mount effect: without persons
\* or without active stations it shows an error and keeps its empty lists.
SchedulePage(st) ==
    LET ps == loadPersons(st)
        act == ActiveStations(loadStations(st))
        failed == Len(ps) = 0 \/ Len(act) = 0
    IN  [route |-> "schedule",
         persons |-> IF failed THEN <<>> ELSE ps,
         stations |-> IF failed THEN <<>> ELSE act,
         error |-> failed]

\* The state of the display page after its mount effect.
DisplayPage(st) ==
    LET ps == loadPersons(st)
        as == loadAssignments(st)
        failed == Len(ps) = 0 \/ as = {}
    IN  [route |-> "display",
         persons |-> IF failed THEN <<>> ELSE ps,
         stations |-> IF failed THEN <<>> ELSE ActiveStations(loadStations(st)),
         assignments |-> IF failed THEN {} ELSE as,
         fairnessMetrics |-> IF failed THEN Absent ELSE loadFairnessMetrics(st),
         error |-> failed]

Routes == {"import", "configuration", "schedule", "display"}

Open(route, st) ==
    CASE route = "import" -> ImportPage(st)
      [] route = "configuration" -> ConfigurationPage(st)
      [] route = "schedule" -> SchedulePage(st)
      [] route = "display" -> DisplayPage(st)

\* The page of the route is mounted; the import page saves the list it
\* has loaded.
Mounted(route, st) ==
    /\ page' = Open(route, st)
    /\ store' = IF route = "import" THEN savePersons(st, loadPersons(st)) ELSE st

\* A Link of the home page.
HomeLink ==
    /\ page.route = "home"
    /\ \E route \in Routes : Mounted(route, store)
    /\ UNCHANGED <<timers, nextId>>
    /\ UNCHANGED engineVars

\* The button of the import page that assigns window.location.href: the
\* document is loaded anew, which ends the callbacks pending.  The delays of
\* the callbacks (one and two seconds) are taken to be shorter than the way
\* of the user to this button: no callback is pending then.
ContinueToConfiguration ==
    /\ page.route = "import"
    /\ Len(page.persons) > 0
    /\ timers = {}
    /\ Mounted("configuration", store)
    /\ timers' = {}
    /\ UNCHANGED nextId
    /\ UNCHANGED engineVars

BackToImport ==
    /\ page.route = "configuration"
    /\ Mounted("import", store)
    /\ UNCHANGED <<timers, nextId>>
    /\ UNCHANGED engineVars

\* handleUpdateScheduleConfig for the checkbox of the morning of the start.
handleUpdateScheduleConfig ==
    /\ page.route = "configuration"
    /\ \E m \in BOOLEAN :
          LET updatedConfig == [page.scheduleConfig EXCEPT !.includeStartMorning = m]
          IN  /\ page' = [page EXCEPT !.scheduleConfig = updatedConfig]
              /\ store' = saveScheduleConfig(store, updatedConfig)
    /\ UNCHANGED <<timers, nextId>>
    /\ UNCHANGED engineVars

handleProceedToSchedule ==
    /\ page.route = "configuration"
    /\ ActiveCount(page.stations) > 0
    /\ page.personsCount > 0
    /\ Mounted("schedule", store)
    /\ UNCHANGED <<timers, nextId>>
    /\ UNCHANGED engineVars

BackToConfiguration ==
    /\ page.route = "schedule"
    /\ Mounted("configuration", store)
    /\ UNCHANGED <<timers, nextId>>
    /\ UNCHANGED engineVars

\* What a new engine can return for the persons and the active stations of
\* the schedule page, whatever the schedule configuration and the flags of
\* the persons: a failure; a success without any slot; or, with two persons
\* for every station, a success whose assignments name at least two persons
\* at every station.  An assignment is kept as the person and the station it
\* names, the metrics as the count of the assignments of every person.
AssignmentsOfPairs(R) == {[personId |-> pr[1], stationId |-> pr[2]] : pr \in R}

\* calculateFairnessMetrics: the counters start at 0 for every person and are
\* raised once for every assignment.
MetricsOf(ids, as) ==
    [assignmentsPerPerson |->
        [id \in ids |-> Cardinality({a \in as : a.personId = id})]]

ScheduleResults(ps, sts) ==
    LET ids == {ps[i].id : i \in 1..Len(ps)}
        all == ids \X StationIds(sts)
    IN  {[success |-> FALSE, assignments |-> {},
          fairnessMetrics |-> MetricsOf(ids, {})],
         [success |-> TRUE, assignments |-> {},
          fairnessMetrics |-> MetricsOf(ids, {})]}
        \cup
        {[success |-> TRUE,
          assignments |-> AssignmentsOfPairs(R),
          fairnessMetrics |-> MetricsOf(ids, AssignmentsOfPairs(R))] :
            R \in {Q \in SUBSET all :
                      /\ Len(ps) >= 2 * Len(sts)
                      /\ \A stationId \in StationIds(sts) :
                             Cardinality({pr \in Q : pr[2] = stationId}) >= 2}}

\* A success branch that saves the assignments and not the metrics.
SavedAssignmentsOnly(st, res) == saveAssignments(st, res.assignments)

\* The two saves of the success branch.
SavedResult(st, res) ==
    saveFairnessMetrics(saveAssignments(st, res.assignments),
                        res.fairnessMetrics)

handleGenerateSchedule ==
    /\ page.route = "schedule"
    /\ ~page.error
    /\ \E res \in ScheduleResults(page.persons, page.stations) :
          IF res.success
          THEN /\ store' = SavedResult(store, res)
               /\ timers' = timers \cup {"toDisplay"}
               /\ UNCHANGED page
          ELSE /\ page' = [page EXCEPT !.error = TRUE]
               /\ UNCHANGED <<store, timers>>
    /\ UNCHANGED nextId
    /\ UNCHANGED engineVars

\* The callback of handleGenerateSchedule: router.push('/display').
ToDisplayFires ==
    /\ "toDisplay" \in timers
    /\ timers' = timers \ {"toDisplay"}
    /\ Mounted("display", store)
    /\ UNCHANGED nextId
    /\ UNCHANGED engineVars

BackToSchedule ==
    /\ page.route = "display"
    /\ Mounted("schedule", store)
    /\ UNCHANGED <<timers, nextId>>
    /\ UNCHANGED engineVars

\* The button "Neu generieren" of the display page.
NewGeneration ==
    /\ page.route = "display"
    /\ ~page.error
    /\ Mounted("schedule", clearAssignments(store))
    /\ UNCHANGED <<timers, nextId>>
    /\ UNCHANGED engineVars

\* Whether handleExportCSV reaches its end: it throws without assignments,
\* for an assignment whose station has no row of the matrix, and without
\* any row.
ExportSucceeds(pg) ==
    /\ pg.assignments # {}
    /\ \A a \in pg.assignments : a.stationId \in StationIds(pg.stations)
    /\ Len(pg.stations) > 0

handleExportCSV ==
    /\ page.route = "display"
    /\ ~page.error
    /\ IF ExportSucceeds(page)
       THEN /\ timers' = timers \cup {"clearAll"}
            /\ UNCHANGED page
       ELSE /\ page' = [page EXCEPT !.error = TRUE]
            /\ UNCHANGED timers
    /\ UNCHANGED <<store, nextId>>
    /\ UNCHANGED engineVars

\* The callback of handleExportCSV: clearAllData and router.push('/').
ClearAllFires ==
    /\ "clearAll" \in timers
    /\ timers' = timers \ {"clearAll"}
    /\ store' = clearAllData(store)
    /\ page' = HomePage
    /\ UNCHANGED nextId
    /\ UNCHANGED engineVars

\* The persons of the workflow runs, entered by hand on the import page.
EnteredPersons ==
    <<[id |-> FirstId, name |-> Text("anna", TRUE, FALSE)],
      [id |-> FirstId + 1, name |-> Text("ben", TRUE, FALSE)]>>

\* The import page of a new session after two persons were entered.
FlowInit ==
    /\ EngineAtRest
    /\ store = savePersons(EmptyStore, EnteredPersons)
    /\ page = ImportPage(store)
    /\ timers = {}
    /\ nextId = FirstId + Len(EnteredPersons)

FlowNext ==
    \/ HomeLink
    \/ removePerson
    \/ ContinueToConfiguration
    \/ BackToImport
    \/ handleRemoveStation
    \/ handleToggleStation
    \/ handleUpdateScheduleConfig
    \/ handleProceedToSchedule
    \/ BackToConfiguration
    \/ handleGenerateSchedule
    \/ ToDisplayFires
    \/ BackToSchedule
    \/ NewGeneration
    \/ handleExportCSV
    \/ ClearAllFires

FlowSpec == FlowInit /\ [][FlowNext]_vars

\* A pending callback of setTimeout is run.
LiveFlowSpec == FlowSpec /\ WF_vars(ClearAllFires) /\ WF_vars(ToDisplayFires)

(***************************************************************************)
(* The configuration page: the fields of the schedule configuration.       *)
(***************************************************************************)
\* The dates the date fields are set to.
EditDates == 1..MaxEditDay

\* onChange of the field of the start date.
UpdateStartDate ==
    /\ page.route = "configuration"
    /\ \E d \in EditDates :
          LET updatedConfig == [page.scheduleConfig EXCEPT !.startDate = d]
          IN  /\ page' = [page EXCEPT !.scheduleConfig = updatedConfig]
              /\ store' = saveScheduleConfig(store, updatedConfig)
    /\ UNCHANGED <<timers, nextId>>
    /\ UNCHANGED engineVars

\* onChange of the field of the end date.
UpdateEndDate ==
    /\ page.route = "configuration"
    /\ \E d \in EditDates :
          LET updatedConfig == [page.scheduleConfig EXCEPT !.endDate = d]
          IN  /\ page' = [page EXCEPT !.scheduleConfig = updatedConfig]
              /\ store' = saveScheduleConfig(store, updatedConfig)
    /\ UNCHANGED <<timers, nextId>>
    /\ UNCHANGED engineVars

handleResetScheduleConfig ==
    /\ page.route = "configuration"
    /\ page' = [page EXCEPT !.scheduleConfig =
                                loadScheduleConfig(clearScheduleConfig(store))]
    /\ store' = clearScheduleConfig(store)
    /\ UNCHANGED <<timers, nextId>>
    /\ UNCHANGED engineVars

ConfigNext ==
    \/ UpdateStartDate
    \/ UpdateEndDate
    \/ handleUpdateScheduleConfig
    \/ handleResetScheduleConfig

\* The configuration page opened in a new session.
ConfigSpec == StationInit /\ [][ConfigNext]_vars

(***************************************************************************)
(* The configuration page: the form of the date availability of a person.  *)
(* A list of dates is kept sorted and without duplicates by the handlers   *)
(* and is recorded as the set of its dates; an optional field of a person  *)
(* is Absent or Stored(dates).                                             *)
(***************************************************************************)
\* The value '' of selectedPersonId: no person is selected.
NoPerson == 0

\* The dates the date fields of the form are set to.
AvailDates == 0..MaxAvailDay

\* The persons of the session before any date list was saved.
PersonsWithoutDates ==
    <<[id |-> FirstId, name |-> Text("anna", TRUE, FALSE),
       availableDates |-> Absent, unavailableDates |-> Absent],
      [id |-> FirstId + 1, name |-> Text("ben", TRUE, FALSE),
       availableDates |-> Absent, unavailableDates |-> Absent]>>

\* The state of the configuration page with the availability form after its
\* mount effect.
AvailabilityPage(st) ==
    [route |-> "configuration", persons |-> loadPersons(st),
     scheduleConfig |-> loadScheduleConfig(st),
     selectedPersonId |-> NoPerson, availabilityMode |-> "unavailable",
     selectedDates |-> {}, error |-> FALSE]

\* person.availableDates && person.availableDates.length > 0
HasDates(field) == field # Absent /\ field[1] # {}

RECURSIVE DateRangeLoop(_, _, _, _)
DateRangeLoop(zone, currentDate, endDate, dates) ==
    IF ~(currentDate <= endDate) THEN dates
    ELSE DateRangeLoop(zone, NextLocalDay(zone, currentDate), endDate,
                       dates \cup {ISODate(currentDate)})

generateDateRange(zone, start, end) ==
    DateRangeLoop(zone, ParseDate(start), ParseDate(end), {})

\* The check of a date against the range of the schedule.
OutsideSchedule(config, from, to) ==
    ParseDate(from) < ParseDate(config.startDate)
        \/ ParseDate(to) > ParseDate(config.endDate)

\* The form is rendered while a person is selected.
FormShown == page.route = "configuration" /\ page.selectedPersonId # NoPerson

\* onChange of the select element: a person of the list or none.
handlePersonSelectionChange ==
    /\ page.route = "configuration"
    /\ \E personId \in {NoPerson} \cup {page.persons[i].id :
                                          i \in 1..Len(page.persons)} :
          LET found == {i \in 1..Len(page.persons) :
                            page.persons[i].id = personId}
              person == page.persons[CHOOSE i \in found : TRUE]
          IN  page' =
                IF found # {} /\ HasDates(person.availableDates)
                THEN [page EXCEPT !.selectedPersonId = personId,
                                  !.availabilityMode = "available",
                                  !.selectedDates = person.availableDates[1]]
                ELSE IF found # {} /\ HasDates(person.unavailableDates)
                THEN [page EXCEPT !.selectedPersonId = personId,
                                  !.availabilityMode = "unavailable",
                                  !.selectedDates = person.unavailableDates[1]]
                ELSE [page EXCEPT !.selectedPersonId = personId,
                                  !.selectedDates = {}]
    /\ UNCHANGED <<store, timers, nextId>>
    /\ UNCHANGED engineVars

\* onChange of the radio buttons of the mode.
setAvailabilityMode ==
    /\ FormShown
    /\ \E mode \in {"available", "unavailable"} :
          page' = [page EXCEPT !.availabilityMode = mode]
    /\ UNCHANGED <<store, timers, nextId>>
    /\ UNCHANGED engineVars

handleAddDateRange ==
    /\ FormShown
    /\ \E tempStartDate \in AvailDates, tempEndDate \in AvailDates :
          page' =
            IF ParseDate(tempStartDate) > ParseDate(tempEndDate)
                 \/ OutsideSchedule(page.scheduleConfig, tempStartDate,
                                    tempEndDate)
            THEN [page EXCEPT !.error = TRUE]
            ELSE [page EXCEPT
                    !.selectedDates =
                        page.selectedDates
                            \cup generateDateRange(tz, tempStartDate, tempEndDate),
                    !.error = FALSE]
    /\ UNCHANGED <<store, timers, nextId>>
    /\ UNCHANGED engineVars

handleAddSingleDate ==
    /\ FormShown
    /\ \E date \in AvailDates :
          page' =
            IF OutsideSchedule(page.scheduleConfig, date, date)
            THEN [page EXCEPT !.error = TRUE]
            ELSE [page EXCEPT !.selectedDates = page.selectedDates \cup {date},
                              !.error = FALSE]
    /\ UNCHANGED <<store, timers, nextId>>
    /\ UNCHANGED engineVars

handleRemoveDate ==
    /\ FormShown
    /\ \E dateToRemove \in page.selectedDates :
          page' = [page EXCEPT !.selectedDates =
                                   page.selectedDates \ {dateToRemove}]
    /\ UNCHANGED <<store, timers, nextId>>
    /\ UNCHANGED engineVars

\* A save that sets the list of the mode and leaves the other list alone.
SavedKeepingOtherList(person, mode, dates) ==
    IF mode = "available"
    THEN [person EXCEPT !.availableDates = Stored(dates)]
    ELSE [person EXCEPT !.unavailableDates = Stored(dates)]

\* updatedPerson of handleSavePersonAvailability.
SavedAvailability(person, mode, dates) ==
    IF mode = "available"
    THEN [person EXCEPT !.availableDates = Stored(dates),
                        !.unavailableDates = Absent]
    ELSE [person EXCEPT !.unavailableDates = Stored(dates),
                        !.availableDates = Absent]

\* The button is disabled while no date is selected.
handleSavePersonAvailability ==
    /\ FormShown
    /\ page.selectedDates # {}
    /\ LET updatedPersons ==
               [i \in 1..Len(page.persons) |->
                   IF page.persons[i].id = page.selectedPersonId
                   THEN SavedAvailability(page.persons[i],
                                          page.availabilityMode,
                                          page.selectedDates)
                   ELSE page.persons[i]]
       IN  /\ page' = [page EXCEPT !.persons = updatedPersons,
                                   !.selectedDates = {},
                                   !.selectedPersonId = NoPerson,
                                   !.error = FALSE]
           /\ store' = savePersons(store, updatedPersons)
    /\ UNCHANGED <<timers, nextId>>
    /\ UNCHANGED engineVars

handleClearPersonAvailability ==
    /\ FormShown
    /\ LET updatedPersons ==
               [i \in 1..Len(page.persons) |->
                   IF page.persons[i].id = page.selectedPersonId
                   THEN [page.persons[i] EXCEPT !.availableDates = Absent,
                                                !.unavailableDates = Absent]
                   ELSE page.persons[i]]
       IN  /\ page' = [page EXCEPT !.persons = updatedPersons,
                                   !.selectedDates = {},
                                   !.error = FALSE]
           /\ store' = savePersons(store, updatedPersons)
    /\ UNCHANGED <<timers, nextId>>
    /\ UNCHANGED engineVars

\* The page opened in a session that holds two persons without date lists
\* and a schedule from Thursday to Saturday.
AvailabilityInit ==
    /\ tz \in EngineTimeZones
    /\ constraints = [persons |-> <<>>, stations |-> <<>>,
                      scheduleConfig |-> Config(1, 1, TRUE, TRUE)]
    /\ EngineInit
    /\ store = saveScheduleConfig(savePersons(EmptyStore, PersonsWithoutDates),
                                  Config(1, MaxAvailDay - 1, FALSE, TRUE))
    /\ page = AvailabilityPage(store)
    /\ timers = {}
    /\ nextId = FirstId + Len(PersonsWithoutDates)

AvailabilityNext ==
    \/ handlePersonSelectionChange
    \/ setAvailabilityMode
    \/ handleAddDateRange
    \/ handleAddSingleDate
    \/ handleRemoveDate
    \/ handleSavePersonAvailability
    \/ handleClearPersonAvailability

AvailabilitySpec == AvailabilityInit /\ [][AvailabilityNext]_vars

(***************************************************************************)
(* Properties                                                              *)
(***************************************************************************)
\* Number of assignments of the list as at a slot and a station.
StaffCount(as, timeSlot, stationId) ==
    SumOver({a \in DOMAIN as : /\ a.dayOfWeek = timeSlot.day
                                /\ a.timeSlot = timeSlot.time
                                /\ a.date = timeSlot.date
                                /\ a.stationId = stationId}, as)

SlotStationPairs == (1..Len(timeSlots)) \X (1..Len(stations))

FullyStaffed(as) ==
    \A q \in SlotStationPairs :
        StaffCount(as, timeSlots[q[1]], stations[q[2]].id) = 2

Understaffed(as) ==
    {q \in SlotStationPairs :
        StaffCount(as, timeSlots[q[1]], stations[q[2]].id) < 2}

PersonOf(id) == CHOOSE person \in {persons[i] : i \in 1..Len(persons)} : person.id = id

KindCount(bag, kinds) == SumOver({e \in DOMAIN bag : e.kind \in kinds}, bag)

\* C1: whenever generateSchedule returns success = true, every (generated
\* slot, active station) pair has exactly 2 assignments in the returned list,
\* whatever the shuffles and however many passes were performed.
C1_SuccessMeansFullyStaffed ==
    (pc = "done" /\ result.success) => FullyStaffed(result.assignments)

\* A successful run over at least one slot that took all three passes.
C1_Witness ==
    /\ pc = "done"
    /\ result.success
    /\ passes = maxIterations
    /\ Len(timeSlots) >= 1

\* C2: the returned diagnostics are the diagnostics recorded during the final
\* pass, whose assignments are returned; their number is the number of
\* understaffed (slot, station) pairs of the returned assignments, and
\* success is true exactly when the returned schedule is fully staffed.
C2_DiagnosticsOfFinalPass ==
    (pc = "done" /\ passes >= 1) =>
        /\ result.errors = currentIterationErrors
        /\ BagCardinality(result.errors)
               = Cardinality(Understaffed(result.assignments))
        /\ result.success <=> FullyStaffed(result.assignments)

\* C3 as stated: 1 unconstrained person, 1 active station and 1 slot give
\* success = false, exactly 1 assignment and exactly one partial-staffing
\* diagnostic.
C3_OnePersonPartialStaffing ==
    (/\ pc = "done"
     /\ Len(persons) = 1
     /\ Len(stations) = 1
     /\ Len(timeSlots) = 1
     /\ IsUnconstrained(persons[1])) =>
        /\ ~result.success
        /\ result.assignments =
               SetToBag({Assignment(timeSlots[1], stations[1], persons[1])})
        /\ BagCardinality(result.errors) = 1
        /\ KindCount(result.errors, {"one"}) = 1

\* C3 amended: with 1 person, 1 active station and 1 slot the capacity check
\* fails (success = false, no assignment, exactly one capacity diagnostic);
\* partial staffing is non-fatal once the capacity check passes: with 2
\* persons of whom exactly one can work the only slot and 1 active station,
\* the result has success = false, exactly 1 assignment (the eligible person
\* at that slot and station) and exactly one partial-staffing diagnostic.
C3_PartialStaffingNonFatal ==
    /\ (/\ pc = "done"
        /\ Len(persons) = 1
        /\ Len(stations) = 1
        /\ Len(timeSlots) = 1) =>
           /\ ~result.success
           /\ result.assignments = EmptyBag
           /\ BagCardinality(result.errors) = 1
           /\ KindCount(result.errors, {"capacity"}) = 1
    /\ (/\ pc = "done"
        /\ Len(persons) = 2
        /\ Len(stations) = 1
        /\ Len(timeSlots) = 1
        /\ Cardinality({i \in 1..2 : canPersonWorkSlot(persons[i], timeSlots[1])}) = 1) =>
           /\ ~result.success
           /\ \E i \in 1..2 :
                 /\ canPersonWorkSlot(persons[i], timeSlots[1])
                 /\ result.assignments =
                        SetToBag({Assignment(timeSlots[1], stations[1], persons[i])})
           /\ BagCardinality(result.errors) = 1
           /\ KindCount(result.errors, {"one"}) = 1

\* A finished run of 2 persons, one of them unable to work the only slot.
C3_Witness ==
    /\ pc = "done"
    /\ Len(persons) = 2
    /\ Len(stations) = 1
    /\ Len(timeSlots) = 1
    /\ Cardinality({i \in 1..2 : canPersonWorkSlot(persons[i], timeSlots[1])}) = 1
    /\ passes >= 1

\* C4: whenever slots x activeStations x 2 > persons x slots, the call
\* returns right after the validation, without running any pass: success =
\* false, no assignment, at least one diagnostic.
C4_CapacityError ==
    (/\ pc # "idle"
     /\ Len(timeSlots) * Len(stations) * 2 > Len(persons) * Len(timeSlots)) =>
        /\ pc = "done"
        /\ passes = 0
        /\ assignments = EmptyBag
        /\ ~result.success
        /\ result.assignments = EmptyBag
        /\ BagCardinality(result.errors) >= 1
        /\ KindCount(result.errors, {"capacity"}) = 1

\* A capacity error with persons and active stations present.
C4_Witness ==
    /\ pc = "done"
    /\ Len(persons) >= 1
    /\ Len(stations) >= 1
    /\ Len(timeSlots) * Len(stations) * 2 > Len(persons) * Len(timeSlots)

\* C5: with an empty person list or without an active station the call
\* returns success = false, no assignment, a validation diagnostic and a
\* fairness score of exactly 1, every person and every active station being
\* mapped to the count 0.
C5_ValidationError ==
    (pc = "done" /\ (Len(persons) = 0 \/ Len(stations) = 0)) =>
        /\ ~result.success
        /\ result.assignments = EmptyBag
        /\ passes = 0
        /\ KindCount(result.errors, {"noPersons"})
               = (IF Len(persons) = 0 THEN 1 ELSE 0)
        /\ KindCount(result.errors, {"noStations"})
               = (IF Len(stations) = 0 THEN 1 ELSE 0)
        /\ result.fairnessMetrics.fairnessScore = ExactlyOne
        /\ result.fairnessMetrics.assignmentsPerPerson
               = [id \in {persons[i].id : i \in 1..Len(persons)} |-> 0]
        /\ result.fairnessMetrics.assignmentsPerStation
               = [id \in {stations[i].id : i \in 1..Len(stations)} |-> 0]

\* A validation error of a call with persons but without an active station.
C5_Witness ==
    /\ pc = "done"
    /\ Len(persons) >= 2
    /\ Len(stations) = 0
    /\ Len(constraints.stations) >= 1
    /\ Len(timeSlots) >= 1

\* C6: at every point of every pass and in every returned list, no person
\* has two assignments of the same date and shift type.
NoDoubleBooking(as) ==
    \A a \in DOMAIN as :
        /\ as[a] = 1
        /\ \A b \in DOMAIN as :
              (a.personId = b.personId /\ a.date = b.date /\ a.timeSlot = b.timeSlot)
                  => a = b

C6_NoDoubleBooking ==
    NoDoubleBooking(assignments) /\ NoDoubleBooking(result.assignments)

\* C7: no assignment of a Morning shift names a person with
\* excludeMorningShifts, and none of an Evening shift a person with
\* excludeEveningShifts, during every pass and in every result.
HonorsShiftExclusions(as) ==
    \A a \in DOMAIN as :
        /\ a.timeSlot = "Morning" => ~PersonOf(a.personId).excludeMorningShifts
        /\ a.timeSlot = "Evening" => ~PersonOf(a.personId).excludeEveningShifts

C7_ShiftExclusionsHonored ==
    HonorsShiftExclusions(assignments) /\ HonorsShiftExclusions(result.assignments)

\* A returned schedule with a Morning slot, in which a person excluded from
\* Morning shifts works an Evening shift.
C7_Witness ==
    /\ pc = "done"
    /\ \E i \in 1..Len(timeSlots) : timeSlots[i].time = "Morning"
    /\ \E a \in DOMAIN result.assignments :
          /\ PersonOf(a.personId).excludeMorningShifts
          /\ a.timeSlot = "Evening"

\* C8: for every assignment, a non-empty availableDates of its person
\* contains its date and a non-empty unavailableDates of its person does not.
HonorsDateLists(as) ==
    \A a \in DOMAIN as :
        LET person == PersonOf(a.personId)
        IN  /\ person.availableDates # {} => a.date \in person.availableDates
            /\ person.unavailableDates # {} => a.date \notin person.unavailableDates

C8_DateListsHonored ==
    HonorsDateLists(assignments) /\ HonorsDateLists(result.assignments)

\* A returned schedule in which a person with an allow-list is assigned while
\* another slot lies on a date outside that list.
C8_Witness ==
    /\ pc = "done"
    /\ \E a \in DOMAIN result.assignments :
          /\ PersonOf(a.personId).availableDates # {}
          /\ \E i \in 1..Len(timeSlots) :
                timeSlots[i].date \notin PersonOf(a.personId).availableDates

\* C9: for start <= end the number of generated slots is 2 x (number of
\* non-Sunday days of the range) - 1 if includeStartMorning is false - 1 if
\* includeEndEvening is false.
NonSundayDays(config) ==
    Cardinality({d \in config.startDate..config.endDate : Weekday(d) # 0})

C9_SlotCount ==
    LET config == constraints.scheduleConfig
    IN  (pc = "slots" /\ config.startDate <= config.endDate) =>
            Len(timeSlots) = 2 * NonSundayDays(config)
                               - (IF config.includeStartMorning THEN 0 ELSE 1)
                               - (IF config.includeEndEvening THEN 0 ELSE 1)

\* C10: with unconstrained persons, at least one person and one active
\* station and persons x slots >= slots x activeStations x 2, the call returns
\* success = true with every (slot, station) pair staffed by exactly 2.
C10_UnconstrainedFeasible ==
    (/\ pc = "done"
     /\ \A i \in 1..Len(persons) : IsUnconstrained(persons[i])
     /\ Len(persons) >= 1
     /\ Len(stations) >= 1
     /\ Len(persons) * Len(timeSlots) >= Len(timeSlots) * Len(stations) * 2) =>
        /\ result.success
        /\ FullyStaffed(result.assignments)
        /\ BagCardinality(result.assignments) = 2 * Len(timeSlots) * Len(stations)

\* A finished run of unconstrained persons over two stations.
C10_Witness ==
    /\ pc = "done"
    /\ \A i \in 1..Len(persons) : IsUnconstrained(persons[i])
    /\ Len(stations) = 2
    /\ Len(timeSlots) >= 1
    /\ Len(persons) * Len(timeSlots) >= Len(timeSlots) * Len(stations) * 2
    /\ passes >= 1

\* C11: for the persons without an exclusion flag and without a date list,
\* the numbers of assignments in the returned schedule differ by at most 1,
\* whatever the shuffles bring.
C11_FairWithinOne ==
    pc = "done" =>
        \A i, j \in 1..Len(constraints.persons) :
            (/\ IsUnconstrained(constraints.persons[i])
             /\ IsUnconstrained(constraints.persons[j])) =>
                getPersonAssignmentCount(result.assignments, constraints.persons[i].id)
                  - getPersonAssignmentCount(result.assignments, constraints.persons[j].id)
                    <= 1

\* The persons that can be selected for the slot: canPersonWorkSlot and
\* isPersonAvailableForSlot hold of them.
Eligible(as, timeSlot) ==
    {i \in 1..Len(persons) : /\ canPersonWorkSlot(persons[i], timeSlot)
                             /\ isPersonAvailableForSlot(as, persons[i].id, timeSlot)}

\* C12: 4 unconstrained persons, 1 active station and a one-day configuration
\* of 2 slots give exactly 4 assignments, 2 per slot, each person once,
\* success = true and a fairness score of 1; and at a single station a person
\* of fewer total assignments is always selected before an eligible person of
\* more.
C12_FewerAssignmentsFirst ==
    /\ [](( /\ pc = "done"
            /\ Len(persons) = 4
            /\ \A i \in 1..Len(persons) : IsUnconstrained(persons[i])
            /\ Len(stations) = 1
            /\ constraints.scheduleConfig.startDate = constraints.scheduleConfig.endDate
            /\ Len(timeSlots) = 2) =>
               /\ BagCardinality(result.assignments) = 4
               /\ \A s \in 1..Len(timeSlots) :
                      StaffCount(result.assignments, timeSlots[s], stations[1].id) = 2
               /\ \A i \in 1..Len(persons) :
                      getPersonAssignmentCount(result.assignments, persons[i].id) = 1
               /\ result.success
               /\ result.fairnessMetrics.fairnessScore = ExactlyOne)
    /\ [][(/\ pc = "pass"
           /\ Len(stations) = 1
           /\ todoSlots' # todoSlots) =>
              \A s \in todoSlots \ todoSlots' :
              \A i, j \in Eligible(assignments, timeSlots[s]) :
                  (/\ getPersonAssignmentCount(assignments', persons[i].id)
                        > getPersonAssignmentCount(assignments, persons[i].id)
                   /\ getPersonAssignmentCount(assignments', persons[j].id)
                        = getPersonAssignmentCount(assignments, persons[j].id)) =>
                      getPersonAssignmentCount(assignments, persons[i].id)
                        <= getPersonAssignmentCount(assignments, persons[j].id)]_vars

\* The number of entries of the assignment list as that name the person.
AssignmentsOf(as, personId) ==
    SumOver({a \in DOMAIN as : a.personId = personId}, as)

\* C13: in every result, successful or failed, assignmentsPerPerson has a key
\* for every input person id, and each value is the number of returned
\* assignments of that person.
C13_CountsMatchAssignments ==
    pc = "done" =>
        LET perPerson == result.fairnessMetrics.assignmentsPerPerson
            ids == {constraints.persons[i].id : i \in 1..Len(constraints.persons)}
        IN  /\ DOMAIN perPerson = ids
            /\ \A id \in ids : perPerson[id] = AssignmentsOf(result.assignments, id)

\* A result of at least one pass in which one person has an assignment and
\* another has none.
C13_Witness ==
    /\ pc = "done"
    /\ passes >= 1
    /\ \E i, j \in 1..Len(constraints.persons) :
          /\ AssignmentsOf(result.assignments, constraints.persons[i].id) = 0
          /\ AssignmentsOf(result.assignments, constraints.persons[j].id) >= 1

\* C14: the fairness score is exactly 1 whenever all persons have the same
\* number of assignments (a total of zero included) and strictly less than 1,
\* that is exp(-num / den) with num / den > 0, whenever two persons differ.
C14_ScoreOneIffEqualCounts ==
    pc = "done" =>
        LET counts == {AssignmentsOf(result.assignments, constraints.persons[i].id) :
                          i \in 1..Len(constraints.persons)}
            score == result.fairnessMetrics.fairnessScore
        IN  /\ Cardinality(counts) <= 1 => score = [num |-> 0, den |-> 1]
            /\ Cardinality(counts) >= 2 => (score.num > 0 /\ score.den > 0)

\* A result in which two persons differ by exactly one assignment.
C14_Witness ==
    /\ pc = "done"
    /\ result.fairnessMetrics.maxAssignments = result.fairnessMetrics.minAssignments + 1
    /\ result.fairnessMetrics.fairnessScore.num > 0

\* C15: the engine carries no state from one call of generateSchedule to
\* the next.  A call starts its passes from the fields that its arguments
\* determine, whatever an earlier call left in the engine, and the result
\* of the earlier call, once returned, is never changed by the later call.
C15_NoStateAcrossCalls ==
    /\ []((pc = "loop" /\ iteration = 0) =>
             /\ persons = constraints.persons
             /\ stations = ActiveStations(constraints.stations)
             /\ timeSlots = generateTimeSlots(tz, constraints.scheduleConfig)
             /\ assignments = EmptyBag
             /\ errors = EmptyBag
             /\ todoSlots = {} /\ curSlot = 0 /\ todoStations = {})
    /\ []((pc = "done" /\ passes = 0) =>
             /\ ~result.success
             /\ result.assignments = EmptyBag
             /\ result.errors =
                    BagOfSeq(ValidationErrors(constraints.persons,
                                 ActiveStations(constraints.stations),
                                 generateTimeSlots(tz, constraints.scheduleConfig)))
             /\ result.fairnessMetrics =
                    calculateFairnessMetrics(constraints.persons,
                        ActiveStations(constraints.stations), EmptyBag))
    /\ [][earlier.held => earlier'.result = earlier.result]_vars

\* A second call that has assigned persons while the caller holds a result
\* of the first call with assignments.
C15_Witness ==
    /\ earlier.held
    /\ BagCardinality(earlier.result.assignments) >= 1
    /\ pc = "pass"
    /\ BagCardinality(assignments) >= 1
    /\ assignments # earlier.result.assignments

\* C16: generateSchedule never throws, whatever the person list, the station
\* list and the date range, ranges with Sundays and ranges whose start is
\* after their end included: the exception of getDayName is unreachable.
C16_NeverThrows == pc # "thrown"

\* A call returned for a range that holds a Sunday and yields slots.
C16_Witness ==
    /\ pc = "done"
    /\ \E d \in constraints.scheduleConfig.startDate ..
                constraints.scheduleConfig.endDate : Weekday(d) = 0
    /\ Len(timeSlots) >= 1

\* C17: from the four default stations, any sequence of add, remove, toggle,
\* rename and reset leaves at most 10 stations and at least 1 active one, on
\* the page and in what the session store yields.
C17_StationLimits ==
    page.route = "configuration" =>
        /\ Len(page.stations) <= StationLimit
        /\ ActiveCount(page.stations) >= 1
        /\ Len(loadStations(store)) <= StationLimit
        /\ ActiveCount(loadStations(store)) >= 1

\* Both limits met at once: ten stations, six of them added, and all but one
\* of them switched off.
C17_Witness ==
    /\ page.route = "configuration"
    /\ Len(page.stations) = StationLimit
    /\ ActiveCount(page.stations) = 1
    /\ loadStations(store) = page.stations

\* C18: after any sequence of manual entries and CSV uploads, no two stored
\* persons have the same name, compared without regard to case.
C18_NoDuplicateNames ==
    LET ps == loadPersons(store)
    IN  \A i, j \in 1..Len(ps) :
            i # j => toLowerCase(ps[i].name) # toLowerCase(ps[j].name)

C20_NoStaleAssignments ==
    LET ps == loadPersons(store)
        act == ActiveStations(loadStations(store))
    IN  \A a \in loadAssignments(store) :
            /\ a.personId \in {ps[i].id : i \in 1..Len(ps)}
            /\ a.stationId \in StationIds(act)

\* C21: the schedule configuration that the session store yields has its
\* start date not after its end date.
C21_StartNotAfterEnd ==
    loadScheduleConfig(store).startDate <= loadScheduleConfig(store).endDate

\* The (slot, station) pairs that the pass in progress has not reached.
PendingPairs ==
    {q \in SlotStationPairs :
        \/ q[1] \in todoSlots
        \/ q[1] = curSlot /\ q[2] \in todoStations}

\* What a pair leaves when it is processed once: two assignments; or one
\* assignment and its diagnostic; or the diagnostic of an empty pair.
ProcessedOnce(as, diags, timeSlot, station) ==
    LET n == StaffCount(as, timeSlot, station.id)
        one == CopiesIn(Diagnostic("one", timeSlot, station), diags)
        none == CopiesIn(Diagnostic("none", timeSlot, station), diags)
    IN  \/ n = 2 /\ one = 0 /\ none = 0
        \/ n = 1 /\ one = 1 /\ none = 0
        \/ n = 0 /\ one = 0 /\ none = 1

\* What a pair not processed leaves: nothing.
NotProcessed(as, diags, timeSlot, station) ==
    /\ StaffCount(as, timeSlot, station.id) = 0
    /\ CopiesIn(Diagnostic("one", timeSlot, station), diags) = 0
    /\ CopiesIn(Diagnostic("none", timeSlot, station), diags) = 0

\* C22: a call that passes the validation performs at least 1 and at most 3
\* passes and returns; during a pass every (slot, active station) pair it has
\* reached is processed exactly once and no other, and at the end of the
\* pass every pair.
C22_BoundedRetryLoop ==
    /\ [](passes <= maxIterations)
    /\ []((pc = "done" /\ Len(ValidationErrors(persons, stations, timeSlots)) = 0)
              => passes >= 1)
    /\ [](pc = "pass" =>
              \A q \in SlotStationPairs :
                  IF q \in PendingPairs
                  THEN NotProcessed(assignments, currentIterationErrors,
                                    timeSlots[q[1]], stations[q[2]])
                  ELSE ProcessedOnce(assignments, currentIterationErrors,
                                     timeSlots[q[1]], stations[q[2]]))
    /\ []((pc = "done" /\ passes >= 1) =>
              /\ PendingPairs = {}
              /\ \A q \in SlotStationPairs :
                     ProcessedOnce(assignments, currentIterationErrors,
                                   timeSlots[q[1]], stations[q[2]]))
    /\ (pc = "loop") ~> (pc = "done")

\* A call that has returned after three passes over two slots or more.
C22_Witness ==
    /\ pc = "done"
    /\ passes = maxIterations
    /\ Len(timeSlots) >= 2
    /\ Len(stations) >= 1

\* C23: a further pass is started only after a pass that ended with a
\* fairness score of at most 0.8 and was not the third; a pass that ends with
\* a score above 0.8 ends the generation; every pass starts from an empty
\* assignment list; and the assignments returned are those of the last pass:
\* two for every pair of that pass but the pairs its diagnostics name.
C23_StopRule ==
    /\ [][(pc = "pass" /\ pc' = "loop") =>
             /\ ~ScoreAboveThreshold(
                    calculateFairnessMetrics(persons, stations, assignments)
                        .fairnessScore)
             /\ passes < maxIterations]_vars
    /\ [][(/\ pc = "pass"
           /\ pc' # "pass"
           /\ ScoreAboveThreshold(
                  calculateFairnessMetrics(persons, stations, assignments)
                      .fairnessScore)) =>
             /\ pc' = "done"
             /\ result'.assignments = assignments]_vars
    /\ [][(pc = "loop" /\ pc' = "pass") => assignments' = EmptyBag]_vars
    /\ []((pc = "done" /\ passes >= 1) =>
             /\ result.assignments = assignments
             /\ BagCardinality(result.assignments)
                    = 2 * Cardinality(SlotStationPairs)
                        - KindCount(currentIterationErrors, {"one"})
                        - 2 * KindCount(currentIterationErrors, {"none"}))

\* A call that discarded its first pass and returned the second, whose score
\* is above 0.8.
C23_Witness ==
    /\ pc = "done"
    /\ passes = 2
    /\ BagCardinality(result.assignments) >= 2
    /\ ScoreAboveThreshold(result.fairnessMetrics.fairnessScore)

\* The assignments that a step adds to the list.
NewAssignments ==
    {a \in DOMAIN assignments' :
        IF a \in DOMAIN assignments THEN assignments'[a] > assignments[a] ELSE TRUE}

\* The generated slot that an assignment names.
SlotOf(a) ==
    CHOOSE s \in 1..Len(timeSlots) : /\ timeSlots[s].day = a.dayOfWeek
                                     /\ timeSlots[s].time = a.timeSlot
                                     /\ timeSlots[s].date = a.date

\* C24: whenever findBestPersonsForSlot selects persons for a slot and a
\* station, no eligible person left unselected has a strictly lower score
\* (10 x total assignments + 5 x assignments at the station) than a person
\* selected.
C24_NoMoreLoadedCandidate ==
    [][pc = "pass" =>
          \A a \in NewAssignments :
          \A j \in Eligible(assignments, timeSlots[SlotOf(a)]) :
              (~\E b \in NewAssignments : b.personId = persons[j].id) =>
                  Score(assignments, PersonOf(a.personId), a.stationId)
                      <= Score(assignments, persons[j], a.stationId)]_vars

\* C25: at every point of a pass, for every slot, every station and every
\* count, each list that findBestPersonsForSlot can return holds exactly
\* min(count, number of eligible persons) persons, pairwise distinct and all
\* eligible for the slot against the assignments made so far; it is empty
\* when nobody is eligible.
C25_SelectionSizeAndEligibility ==
    pc = "pass" =>
        \A q \in SlotStationPairs :
        \A count \in 0..MaxCount :
        \A sel \in findBestPersonsForSlot(persons, assignments, timeSlots[q[1]],
                                          stations[q[2]].id, count) :
            LET eligible == Eligible(assignments, timeSlots[q[1]])
            IN  /\ Len(sel) = Min(count, Cardinality(eligible))
                /\ \A k, l \in 1..Len(sel) : k # l => sel[k].id # sel[l].id
                /\ \A k \in 1..Len(sel) :
                       \E i \in eligible : persons[i] = sel[k]
                /\ eligible = {} => sel = <<>>

\* A pass in which a call has returned a single person, the only one
\* eligible, while others were booked or excluded.
C25_Witness ==
    /\ pc = "pass"
    /\ KindCount(currentIterationErrors, {"one"}) >= 1
    /\ BagCardinality(assignments) >= 3
    /\ Len(persons) >= 3

\* C26: the slots that generateTimeSlots returns are in strictly increasing
\* order (by date, Morning before Evening within a date), so no date and
\* shift occurs twice; every date lies in [startDate, endDate]; slots of
\* different days carry different dates; and no slot lies on a Sunday, by
\* its date or by its day.
C26_SlotsChronological ==
    pc = "slots" =>
        /\ \A k, l \in 1..Len(timeSlots) :
               k < l =>
                   \/ timeSlots[k].date < timeSlots[l].date
                   \/ /\ timeSlots[k].date = timeSlots[l].date
                      /\ timeSlots[k].time = "Morning"
                      /\ timeSlots[l].time = "Evening"
        /\ \A k \in 1..Len(timeSlots) :
               /\ constraints.scheduleConfig.startDate <= timeSlots[k].date
               /\ timeSlots[k].date <= constraints.scheduleConfig.endDate
               /\ Weekday(timeSlots[k].date) # 0
               /\ timeSlots[k].day # "Sunday"
        /\ \A k, l \in 1..Len(timeSlots) :
               timeSlots[k].day # timeSlots[l].day =>
                   timeSlots[k].date # timeSlots[l].date

\* The number of entries of the list as for the date, the shift type and the
\* station.
TripleCount(as, date, time, stationId) ==
    SumOver({a \in DOMAIN as : /\ a.date = date
                                /\ a.timeSlot = time
                                /\ a.stationId = stationId}, as)

\* Every (date, shift type, station) triple of the list has at most 2
\* assignments, of distinct persons, and every assignment names an active
\* station and a generated slot.
AtMostTwoPerTriple(as) ==
    \A a \in DOMAIN as :
        /\ TripleCount(as, a.date, a.timeSlot, a.stationId) <= 2
        /\ as[a] = 1
        /\ \A b \in DOMAIN as :
               (/\ b # a
                /\ b.date = a.date
                /\ b.timeSlot = a.timeSlot
                /\ b.stationId = a.stationId) => b.personId # a.personId
        /\ \E st \in 1..Len(stations) : stations[st].id = a.stationId
        /\ \E s \in 1..Len(timeSlots) : /\ timeSlots[s].date = a.date
                                        /\ timeSlots[s].time = a.timeSlot
                                        /\ timeSlots[s].day = a.dayOfWeek

\* C27: at every point of every pass and in every result returned, each
\* (date, shift type, station) triple has at most 2 assignments, their
\* persons are distinct, and every assignment names an active station and a
\* generated slot.
C27_TwoPerTriple ==
    /\ pc \in {"loop", "pass", "done"} => AtMostTwoPerTriple(assignments)
    /\ pc = "done" => AtMostTwoPerTriple(result.assignments)

\* Whether a person holds a non-empty allow-list and a non-empty deny-list.
HasBothLists(person) ==
    HasDates(person.availableDates) /\ HasDates(person.unavailableDates)

\* C28: after any sequence of select-person, add-date, remove-date,
\* save-availability (in either mode) and clear-availability operations on
\* persons that started without date lists, no stored person has both a
\* non-empty availableDates and a non-empty unavailableDates.
C28_ListsMutuallyExclusive ==
    \A i \in 1..Len(loadPersons(store)) : ~HasBothLists(loadPersons(store)[i])

\* One stored person holds a saved allow-list and another a saved deny-list.
C28_Witness ==
    LET ps == loadPersons(store)
    IN  /\ \E i \in 1..Len(ps) : HasDates(ps[i].availableDates)
        /\ \E i \in 1..Len(ps) : HasDates(ps[i].unavailableDates)

\* A step that puts a value into the entry of the assignments, or into the
\* entry of the fairness metrics.
WritesResult ==
    \/ store'.assignments # Absent /\ store'.assignments # store.assignments
    \/ store'.fairnessMetrics # Absent
           /\ store'.fairnessMetrics # store.fairnessMetrics

\* A step of the schedule page that ends with the error of a failed
\* generation.
GenerationFails ==
    /\ page.route = "schedule" /\ ~page.error
    /\ page'.route = "schedule" /\ page'.error

\* The stored assignments and the stored metrics belong to one result: the
\* metrics count the stored assignments.
StoredPairOfOneRun ==
    /\ store.assignments # Absent => store.fairnessMetrics # Absent
    /\ store.assignments # Absent /\ store.fairnessMetrics # Absent =>
           LET counts == store.fairnessMetrics[1].assignmentsPerPerson
           IN  store.fairnessMetrics[1]
                   = MetricsOf(DOMAIN counts, store.assignments[1])

NamesNoSlot(config) ==
    \/ config.startDate > config.endDate
    \/ \A d \in config.startDate..config.endDate : Weekday(d) = 0
    \/ /\ config.startDate = config.endDate
       /\ ~config.includeStartMorning
       /\ ~config.includeEndEvening

\* C30: when the configuration yields zero slots (a start after the end, a
\* range of Sundays only, or a single day without both of its shifts) and
\* there is at least one person and one active station, generateSchedule
\* reports no capacity or validation error: it returns success=true with an
\* empty assignments list, no diagnostics and fairness score 1.
C30_ZeroSlotsSucceed ==
    /\ pc = "done" /\ NamesNoSlot(constraints.scheduleConfig) =>
           Len(timeSlots) = 0
    /\ pc = "done" /\ Len(timeSlots) = 0
           /\ Len(persons) >= 1 /\ Len(stations) >= 1 =>
           /\ result.success
           /\ result.assignments = EmptyBag
           /\ result.errors = EmptyBag
           /\ result.fairnessMetrics.fairnessScore = ExactlyOne

====
